---------------------------- MODULE Spec2Model ----------------------------
(***************************************************************************)
(* A model of the dependency extractor (dependencies.py) and of the        *)
(* reverse-dependency query tool (list.py).                                *)
(*                                                                         *)
(* The durable state is the SQLite file dependencies.db: whether the table *)
(* service_dependencies exists, and its rows in rowid order.  Each         *)
(* invocation of one of the two programs is one action.  Python tuples are *)
(* TLA+ tuples, Python lists are sequences, a dict is a function whose     *)
(* DOMAIN is the set of keys, and None is the value None below.            *)
(*                                                                         *)
(* A printed line is kept as a tuple of strings: a message is <<text>> or   *)
(* <<text, payload>>, a record is <<separator, field, ...>>.  The lines    *)
(* "  dep - ver" that dependencies.py prints under "Found dependencies:"   *)
(* are kept as their number, on the header line; every other line is kept. *)
(***************************************************************************)
EXTENDS Integers, Sequences, FiniteSets, TLC

VARIABLES db, prog, args, rows, results, out, status

vars == <<db, prog, args, rows, results, out, status>>

-----------------------------------------------------------------------------
(* Bounds and input domains *)

\* the largest number of rows the table is let grow to
MaxRows == 2
\* the longest dependency listing one gradle run yields
MaxDeps == 2
\* the longest fact sequence handed to the graph builder in SpecGraph
MaxFacts == 3

None == "None"

\* project names that settings.gradle may hold
ProjectNames == {"A", "B"}
\* the com.example:<name>:<version> coordinates a gradle listing may hold
Artefacts == {<<"B", "2.0">>, <<"X", "1.0">>, <<"X", "2.0">>}
Versions == {"1.0", "2.0"}
\* values of --service
Services == {"A", "B", "X"}

\* the (dependency, version) listings get_dependencies may return
RECURSIVE SeqsUpTo(_, _)
SeqsUpTo(S, n) ==
    IF n = 0 THEN {<<>>}
    ELSE LET shorter == SeqsUpTo(S, n - 1)
         IN  shorter \cup {Append(s, x) : s \in {t \in shorter : Len(t) = n - 1}, x \in S}

DepLists == SeqsUpTo(Artefacts, MaxDeps)

\* the facts a row sequence handed to the graph builder may hold
Facts == ProjectNames \X Services \X Versions

FactSeqs == SeqsUpTo(Facts, MaxFacts)

-----------------------------------------------------------------------------
(* Python helpers *)

EmptyDict == [k \in {} |-> <<>>]

\* d.get(k, default)
dict_get(d, k, default) == IF k \in DOMAIN d THEN d[k] ELSE default

\* d[k] = v
dict_put(d, k, v) == [x \in (DOMAIN d) \cup {k} |-> IF x = k THEN v ELSE d[x]]

Front(s) == SubSeq(s, 1, Len(s) - 1)

Last(s) == s[Len(s)]

-----------------------------------------------------------------------------
(* list.py: the graph builder and the upstream resolver *)

\* mutant: the columns swapped, the map keyed by the dependent
RECURSIVE build_reverse_graph_swapped(_)
build_reverse_graph_swapped(rs) ==
    IF rs = <<>> THEN EmptyDict
    ELSE LET rev_graph == build_reverse_graph_swapped(Front(rs))
             svc == Last(rs)[1]
             dep == Last(rs)[2]
             ver == Last(rs)[3]
         IN  dict_put(rev_graph, svc,
                      Append(dict_get(rev_graph, svc, <<>>), <<dep, ver>>))

\* mutant: a dependent already listed under the key is not appended again
RECURSIVE build_reverse_graph_dedup(_)
build_reverse_graph_dedup(rs) ==
    IF rs = <<>> THEN EmptyDict
    ELSE LET rev_graph == build_reverse_graph_dedup(Front(rs))
             svc == Last(rs)[1]
             dep == Last(rs)[2]
             ver == Last(rs)[3]
             old == dict_get(rev_graph, dep, <<>>)
         IN  IF \E i \in 1..Len(old) : old[i][1] = svc
             THEN rev_graph
             ELSE dict_put(rev_graph, dep, Append(old, <<svc, ver>>))

\* for svc, dep, ver in rows: rev_graph.setdefault(dep, []).append((svc, ver))
RECURSIVE build_reverse_graph(_)
build_reverse_graph(rs) ==
    IF rs = <<>> THEN EmptyDict
    ELSE LET rev_graph == build_reverse_graph(Front(rs))
             svc == Last(rs)[1]
             dep == Last(rs)[2]
             ver == Last(rs)[3]
         IN  dict_put(rev_graph, dep,
                      Append(dict_get(rev_graph, dep, <<>>), <<svc, ver>>))

\* for svc, dep, _ in rows: direct.setdefault(svc, set()).add(dep)
RECURSIVE build_direct_map(_)
build_direct_map(rs) ==
    IF rs = <<>> THEN EmptyDict
    ELSE LET direct == build_direct_map(Front(rs))
             svc == Last(rs)[1]
             dep == Last(rs)[2]
         IN  dict_put(direct, svc, dict_get(direct, svc, {}) \cup {dep})

\* the loop of compute_immediate_upstream from candidate i on
RECURSIVE immediate_loop(_, _, _, _, _)
immediate_loop(candidates, candidate_names, direct_map, i, immediate) ==
    IF i > Len(candidates) THEN immediate
    ELSE LET dep == candidates[i][1]
             ver == candidates[i][2]
         IN  IF dict_get(direct_map, dep, {}) \cap candidate_names # {}
             THEN immediate_loop(candidates, candidate_names, direct_map, i + 1, immediate)
             ELSE immediate_loop(candidates, candidate_names, direct_map, i + 1,
                                 Append(immediate, <<dep, ver>>))

\* mutant: the dependent itself is left out of the names it is tested against
RECURSIVE immediate_loop_others(_, _, _, _, _)
immediate_loop_others(candidates, candidate_names, direct_map, i, immediate) ==
    IF i > Len(candidates) THEN immediate
    ELSE LET dep == candidates[i][1]
             ver == candidates[i][2]
         IN  IF dict_get(direct_map, dep, {}) \cap (candidate_names \ {dep}) # {}
             THEN immediate_loop_others(candidates, candidate_names, direct_map, i + 1, immediate)
             ELSE immediate_loop_others(candidates, candidate_names, direct_map, i + 1,
                                        Append(immediate, <<dep, ver>>))

compute_immediate_upstream_others(service, rev_graph, direct_map) ==
    LET candidates == dict_get(rev_graph, service, <<>>)
        candidate_names == {candidates[i][1] : i \in 1..Len(candidates)}
    IN  immediate_loop_others(candidates, candidate_names, direct_map, 1, <<>>)

\* mutant: the loop ends (break) at the first candidate it skips
RECURSIVE immediate_loop_break(_, _, _, _, _)
immediate_loop_break(candidates, candidate_names, direct_map, i, immediate) ==
    IF i > Len(candidates) THEN immediate
    ELSE LET dep == candidates[i][1]
             ver == candidates[i][2]
         IN  IF dict_get(direct_map, dep, {}) \cap candidate_names # {}
             THEN immediate
             ELSE immediate_loop_break(candidates, candidate_names, direct_map, i + 1,
                                       Append(immediate, <<dep, ver>>))

compute_immediate_upstream_break(service, rev_graph, direct_map) ==
    LET candidates == dict_get(rev_graph, service, <<>>)
        candidate_names == {candidates[i][1] : i \in 1..Len(candidates)}
    IN  immediate_loop_break(candidates, candidate_names, direct_map, 1, <<>>)

\* mutant: the version of the first candidate is emitted for every survivor
compute_immediate_upstream_reversioned(service, rev_graph, direct_map) ==
    LET candidates == dict_get(rev_graph, service, <<>>)
        candidate_names == {candidates[i][1] : i \in 1..Len(candidates)}
        kept == immediate_loop(candidates, candidate_names, direct_map, 1, <<>>)
    IN  [i \in 1..Len(kept) |-> <<kept[i][1], candidates[1][2]>>]

compute_immediate_upstream(service, rev_graph, direct_map) ==
    LET candidates == dict_get(rev_graph, service, <<>>)
        candidate_names == {candidates[i][1] : i \in 1..Len(candidates)}
    IN  immediate_loop(candidates, candidate_names, direct_map, 1, <<>>)

\* main, the branch taken when --service is given: the resolver's result
resolve_upstream(rs, input_service, reduce) ==
    LET rev_graph == build_reverse_graph(rs)
        direct_map == build_direct_map(rs)
        upstream == dict_get(rev_graph, input_service, <<>>)
    IN  IF reduce
        THEN compute_immediate_upstream(input_service, rev_graph, direct_map)
        ELSE upstream

-----------------------------------------------------------------------------
(* list.py: the program *)

NoData == <<"No dependency data found in the DB.">>

Header == <<"servicename, dependency, version">>

\* a printed record: the fields joined by sep
Line(sep, fields) == <<sep>> \o fields

\* the rows the SELECT of load_db returns, in rowid order; it raises when the
\* store cannot be opened or read (fault) or holds no table
load_db(d, fault) ==
    IF fault # 0 THEN [raised |-> TRUE, rows |-> <<>>, cause |-> "unavailable"]
    ELSE IF ~d.has_table THEN [raised |-> TRUE, rows |-> <<>>, cause |-> "no such table"]
    ELSE [raised |-> FALSE, rows |-> d.rows, cause |-> ""]

\* main of list.py: what it printed, how it ended, and its locals
main_list(d, a, fault) ==
    LET loaded == load_db(d, fault)
        rs == loaded.rows
        res == resolve_upstream(rs, a.service, a.reduce)
    IN  IF loaded.raised
        THEN [status |-> "uncaught", out |-> <<>>, rows |-> <<>>, results |-> <<>>]
        ELSE IF rs = <<>>
        THEN [status |-> "returned", out |-> <<NoData>>,
              rows |-> rs, results |-> <<>>]
        ELSE IF a.service # None
        THEN [status |-> "returned",
              out |-> IF a.machine
                      THEN [i \in 1..Len(res) |-> Line(",", res[i])]
                      ELSE <<Header>>
                           \o [i \in 1..Len(res) |-> Line(", ", <<a.service>> \o res[i])],
              rows |-> rs, results |-> res]
        ELSE [status |-> "returned",
              out |-> IF a.machine
                      THEN [i \in 1..Len(rs) |-> Line(",", rs[i])]
                      ELSE <<Header>>
                           \o [i \in 1..Len(rs) |-> Line(", ", rs[i])],
              rows |-> rs, results |-> <<>>]

-----------------------------------------------------------------------------
(* dependencies.py *)

NoServiceName == <<"Could not determine the current service name from settings.gradle.">>

NoDependencies == <<"No dependencies found.">>

SavedRecords == <<"Saved records in SQLite (servicename, dependency, version):">>

Rule == <<"---------------------------------">>

ErrorSaving(e) == <<"Error saving to DB:", e>>

ErrorReading(e) == <<"Error reading from DB:", e>>

SavedOk(service_name) == <<"Dependencies saved successfully to the database.", service_name>>

ServiceNameLine(service_name) == <<"Service Name:", service_name>>

\* "Found dependencies:" and the number of "  dep - ver" lines under it
FoundDependencies(dependencies) == <<"Found dependencies:", ToString(Len(dependencies))>>

\* mutant: the table is dropped and created anew on every save
create_table_anew(d) == [has_table |-> TRUE, rows |-> <<>>]

\* CREATE TABLE IF NOT EXISTS service_dependencies (...)
create_table(d) == [d EXCEPT !.has_table = TRUE]

\* mutant: a plain INSERT into a table without the UNIQUE constraint
insert_plain(table, row) == Append(table, row)

\* INSERT OR IGNORE under UNIQUE(servicename, dependency, version)
insert_or_ignore(table, row) ==
    IF \E i \in 1..Len(table) : table[i] = row THEN table ELSE Append(table, row)

\* the insert loop of save_dependencies_to_db from the k-th dependency on; the
\* store operation numbered fault raises
RECURSIVE insert_loop(_, _, _, _, _)
insert_loop(table, service_name, dependencies, k, fault) ==
    IF k > Len(dependencies) THEN [raised |-> FALSE, rows |-> table]
    ELSE IF fault = 2 + k THEN [raised |-> TRUE, rows |-> table]
    ELSE insert_loop(insert_or_ignore(table, <<service_name, dependencies[k][1],
                                                 dependencies[k][2]>>),
                     service_name, dependencies, k + 1, fault)

\* The store operations of one save are numbered 1 (connect), 2 (create table),
\* 2 + k (the k-th insert) and Len(dependencies) + 3 (commit).  The table is
\* created in autocommit mode; the inserts run in one transaction, which is
\* discarded with the connection when an insert or the commit raises.
save_dependencies_to_db(d, service_name, dependencies, fault) ==
    LET created == create_table(d)
        ins == insert_loop(created.rows, service_name, dependencies, 1, fault)
    IN  IF fault = 1
        THEN [db |-> d, out |-> <<ErrorSaving("connect")>>]
        ELSE IF fault = 2
        THEN [db |-> d, out |-> <<ErrorSaving("create")>>]
        ELSE IF ins.raised
        THEN [db |-> created, out |-> <<ErrorSaving("insert")>>]
        ELSE IF fault = Len(dependencies) + 3
        THEN [db |-> created, out |-> <<ErrorSaving("commit")>>]
        ELSE [db |-> [has_table |-> TRUE, rows |-> ins.rows],
              out |-> <<SavedOk(service_name)>>]

\* what print_db_contents prints
print_db_contents(d, fault) ==
    IF fault # 0 THEN <<ErrorReading("unavailable")>>
    ELSE IF ~d.has_table THEN <<ErrorReading("no such table")>>
    ELSE <<Header, Rule>>
         \o [i \in 1..Len(d.rows) |-> Line(", ", d.rows[i])]

\* mutant: the dependencies are saved whether or not any was found
main_dependencies_always_saves(d, service_name, dependencies, fault) ==
    IF service_name = None
    THEN [db |-> d,
          out |-> <<NoServiceName>>]
    ELSE LET saved == save_dependencies_to_db(d, service_name, dependencies, fault)
         IN  [db |-> saved.db,
              out |-> <<ServiceNameLine(service_name)>> \o saved.out
                      \o (IF dependencies # <<>> THEN <<>> ELSE <<NoDependencies>>)]

\* main of dependencies.py; the store operation numbered fault raises, the
\* read of print_db_contents being numbered Len(dependencies) + 4
main_dependencies(d, service_name, dependencies, fault) ==
    IF service_name = None
    THEN [db |-> d,
          out |-> <<NoServiceName>>]
    ELSE IF dependencies # <<>>
    THEN LET saved == save_dependencies_to_db(d, service_name, dependencies, fault)
             shown == print_db_contents(saved.db,
                                        IF fault = Len(dependencies) + 4 THEN 1 ELSE 0)
         IN  [db |-> saved.db,
              out |-> <<ServiceNameLine(service_name), FoundDependencies(dependencies)>>
                      \o saved.out \o <<SavedRecords>> \o shown]
    ELSE [db |-> d,
          out |-> <<ServiceNameLine(service_name), NoDependencies>>]

\* how many store operations a run of dependencies.py makes
StoreOps(service_name, dependencies) ==
    IF service_name = None \/ dependencies = <<>> THEN 0 ELSE Len(dependencies) + 4

-----------------------------------------------------------------------------
(* The state machine *)

NoArgs == [service |-> None, reduce |-> FALSE, machine |-> FALSE]

\* no dependencies.db yet
Init ==
    /\ db = [has_table |-> FALSE, rows |-> <<>>]
    /\ prog = "none"
    /\ args = NoArgs
    /\ rows = <<>>
    /\ results = <<>>
    /\ out = <<>>
    /\ status = "returned"

\* one run of dependencies.py
DependenciesRun ==
    \E service_name \in ProjectNames \cup {None} :
      \E dependencies \in (IF service_name = None THEN {<<>>} ELSE DepLists) :
        \E fault \in 0..StoreOps(service_name, dependencies) :
          \E r \in {main_dependencies(db, service_name, dependencies, fault)} :
              /\ Len(r.db.rows) <= MaxRows
              /\ db' = r.db
              /\ prog' = "dependencies"
              /\ args' = NoArgs
              /\ rows' = <<>>
              /\ results' = <<>>
              /\ out' = r.out
              /\ status' = "returned"

\* one run of list.py
ListRun ==
    \E service \in Services \cup {None}, reduce \in BOOLEAN, machine \in BOOLEAN,
       fault \in 0..1 :
      \E r \in {main_list(db, [service |-> service, reduce |-> reduce,
                                 machine |-> machine], fault)} :
          /\ prog' = "list"
          /\ args' = [service |-> service, reduce |-> reduce, machine |-> machine]
          /\ rows' = r.rows
          /\ results' = r.results
          /\ out' = r.out
          /\ status' = r.status
          /\ UNCHANGED db

Next == DependenciesRun \/ ListRun

Spec == Init /\ [][Next]_vars

\* The graph builder and the resolver applied to any bounded fact sequence
InitGraph ==
    /\ db = [has_table |-> FALSE, rows |-> <<>>]
    /\ prog = "none"
    /\ args = NoArgs
    /\ rows \in FactSeqs
    /\ results = <<>>
    /\ out = <<>>
    /\ status = "returned"

Resolve ==
    \E service \in Services, reduce \in BOOLEAN :
      /\ prog' = "resolve"
      /\ args' = [service |-> service, reduce |-> reduce, machine |-> FALSE]
      /\ results' = resolve_upstream(rows, service, reduce)
      /\ status' = "returned"
      /\ UNCHANGED <<db, rows, out>>

NextGraph == Resolve

SpecGraph == InitGraph /\ [][NextGraph]_vars

-----------------------------------------------------------------------------
(* What the claims are stated with.  These are written from the rows alone, *)
(* with no use of the graph builder or of the resolver.                     *)

Range(s) == {s[i] : i \in 1..Len(s)}

NoDuplicates(s) == \A i, j \in 1..Len(s) : s[i] = s[j] => i = j

IsPrefix(s, t) == Len(s) <= Len(t) /\ SubSeq(t, 1, Len(s)) = s

\* s can be got from t by deleting elements
RECURSIVE IsSubsequence(_, _)
IsSubsequence(s, t) ==
    IF s = <<>> THEN TRUE
    ELSE IF t = <<>> THEN FALSE
    ELSE IF Head(s) = Head(t) THEN IsSubsequence(Tail(s), Tail(t))
    ELSE IsSubsequence(s, Tail(t))

\* the facts of rs whose dependency is S, in the order of rs
FactsOn(rs, S) ==
    LET on(f) == f[2] = S
    IN  SelectSeq(rs, on)

\* the (dependent, version) pairs of the facts on S, in the order of rs
DependentsInOrder(rs, S) ==
    LET fs == FactsOn(rs, S)
    IN  [i \in 1..Len(fs) |-> <<fs[i][1], fs[i][3]>>]

\* the names of the recorded dependents of S
DependentNames(rs, S) == {f[1] : f \in {g \in Range(rs) : g[2] = S}}

\* D has a recorded dependency that is a recorded dependent of S
DependsOnADependent(rs, D, S) ==
    \E f \in Range(rs) : f[1] = D /\ f[2] \in DependentNames(rs, S)

\* D has a recorded dependency on another recorded dependent of S
DependsOnAnotherDependent(rs, D, S) ==
    \E f \in Range(rs) : f[1] = D /\ f[2] # D /\ f[2] \in DependentNames(rs, S)

ImmediateRun == prog = "resolve" /\ args.reduce

RawRun == prog = "resolve" /\ ~args.reduce

C2_ExcludedIffDependsOnAnother ==
    ImmediateRun =>
        \A p \in Range(DependentsInOrder(rows, args.service)) :
            (p \notin Range(results))
                <=> DependsOnAnotherDependent(rows, p[1], args.service)

\* C3: the immediate-mode result is a subsequence of the raw-mode result
\* rev_graph.get(S, []): no pair is invented, duplicated or re-versioned.
C3_ImmediateSubsequenceOfRaw ==
    ImmediateRun =>
        /\ IsSubsequence(results, resolve_upstream(rows, args.service, FALSE))
        /\ Range(results) \subseteq Range(DependentsInOrder(rows, args.service))

\* C3 witness: an immediate run that emits two pairs with different versions
C3_Witness ==
    /\ ImmediateRun
    /\ Len(results) >= 2
    /\ results[1][2] # results[2][2]

\* C5: the reverse map has one key per dependency of the facts, its entry is the
\* (service, version) pairs of the facts on that key in input order, without
\* de-duplication by name; raw mode returns that entry, or the empty sequence
\* for a target that is no key.
C5_ReverseMapKeepsInputOrder ==
    LET rev_graph == build_reverse_graph(rows)
    IN  /\ DOMAIN rev_graph = {f[2] : f \in Range(rows)}
        /\ \A dep \in DOMAIN rev_graph : rev_graph[dep] = DependentsInOrder(rows, dep)
        /\ RawRun => results = DependentsInOrder(rows, args.service)

\* C5 witness: a raw run that lists the same dependent twice, with two versions
C5_Witness ==
    /\ RawRun
    /\ Len(results) >= 2
    /\ \E i, j \in 1..Len(results) :
          i < j /\ results[i][1] = results[j][1] /\ results[i][2] # results[j][2]

ListedService == prog = "list" /\ status = "returned" /\ args.service # None

\* C6: a target that is no key of the reverse map, and so any target on an empty
\* fact set, gives the empty result in raw and in immediate mode, and the run
\* returns.
C6_AbsentTargetGivesEmptyResult ==
    (ListedService /\ args.service \notin {f[2] : f \in Range(rows)}) =>
        /\ results = <<>>
        /\ resolve_upstream(rows, args.service, FALSE) = <<>>
        /\ resolve_upstream(rows, args.service, TRUE) = <<>>
        /\ out \in {<<NoData>>, <<Header>>, <<>>}

\* C6 witness: an immediate run on a target no fact of a non-empty store names
C6_Witness ==
    /\ ListedService
    /\ args.reduce
    /\ rows # <<>>
    /\ args.service \notin {f[2] : f \in Range(rows)}
    /\ args.service \in {f[1] : f \in Range(rows)}

\* C7 as stated: no run of either program ends with a failure that was not caught.
C7_EveryFailureIsCaught == status # "uncaught"

\* C4: the table holds at most one row per (service, dependency, version), and
\* a save that meets no store failure, whatever it lists and however often,
\* reports success and leaves exactly one row for each triple it lists.
C4_OneRowPerTriple ==
    /\ NoDuplicates(db.rows)
    /\ \A service_name \in ProjectNames, dependencies \in DepLists :
          LET saved == save_dependencies_to_db(db, service_name, dependencies, 0)
          IN  /\ saved.out = <<SavedOk(service_name)>>
              /\ \A k \in 1..Len(dependencies) :
                    Cardinality({i \in 1..Len(saved.db.rows) :
                        saved.db.rows[i] = <<service_name, dependencies[k][1],
                                               dependencies[k][2]>>}) = 1

\* C4 witness: a save of two listed dependencies that reported success and left one row
C4_Witness ==
    /\ prog = "dependencies"
    /\ \E s \in ProjectNames : SavedOk(s) \in Range(out)
    /\ <<"Found dependencies:", "2">> \in Range(out)
    /\ Len(db.rows) = 1

\* C8: every run leaves each row that was in the table in the table, in its
\* place and unchanged, a save that a store failure aborts included.
C8_AppendOnly ==
    [][(db.has_table => db'.has_table) /\ IsPrefix(db.rows, db'.rows)]_vars

\* C8 witness: a save aborted at an insert, with facts in the table
C8_Witness ==
    /\ prog = "dependencies"
    /\ ErrorSaving("insert") \in Range(out)
    /\ db.rows # <<>>

\* C9: a run of dependencies.py that cannot determine the project name, or
\* that finds no dependency, leaves the store as it was: no row and no table
\* is created or changed.
C9_NoFactsNoMutation ==
    [][(prog' = "dependencies" /\ (NoServiceName \in Range(out') \/ NoDependencies \in Range(out')))
          => db' = db]_vars

\* C9 witness: a run that found no dependency, on a store that holds facts
C9_Witness ==
    /\ prog = "dependencies"
    /\ NoDependencies \in Range(out)
    /\ db.rows # <<>>

=============================================================================
